---------------------------- MODULE Spec2Model ----------------------------
(***************************************************************************)
(* Wide-to-long reshaping of stock spreadsheets.                           *)
(*                                                                         *)
(*   src/multi_file_converter.py  convert_stock_file_to_long (the general  *)
(*                                pipeline) and convert_all_stock_files    *)
(*                                (the batch driver)                       *)
(*   src/wide_to_long.py          convert_wide_to_long_csv (the single     *)
(*                                file pipeline, no numeric coercion)      *)
(*   src/quarterly_files.py       fix_quarterly_data_files (header-offset  *)
(*                                correction, then the pipeline)           *)
(*                                                                         *)
(* A data frame is a record [columns, rows]; a long table is a sequence of *)
(* records [Date, Stock, Value]; a cell is null (NaN/None), a number or a  *)
(* text, the text being a sequence of one-character strings.               *)
(***************************************************************************)
EXTENDS Integers, Sequences, FiniteSets, TLC

(***************************************************************************)
(* Bounds of the model.                                                    *)
(***************************************************************************)
\* a wide table of the pipeline has at most MaxCells value cells
MaxCells == 7
\* ... in at most MaxStocks value columns
MaxStocks == 2
\* value cells of a table convert_wide_to_long_csv reads
MaxWideCells == 4
\* rows of a sheet the batch driver reads
MaxBatchRows == 2
\* value cells of a sheet the quarterly fixer reads
MaxQuarterlyCells == 3
\* largest column length of the threshold specification
MaxTotal == 100

(***************************************************************************)
(* Cells.                                                                  *)
(***************************************************************************)
Null == [k |-> "null", n |-> 0, s |-> <<>>]

Num(x) == [k |-> "num", n |-> x, s |-> <<>>]

Text(cs) == [k |-> "str", n |-> 0, s |-> cs]

\* pandas isna(): NaN and None
IsNull(v) == v.k = "null"

\* Python's  v != text  on one cell: a number never equals a text
NotEqualText(v, cs) == ~(v.k = "str" /\ v.s = cs)

DigitChars == <<"0", "1", "2", "3", "4", "5", "6", "7", "8", "9">>

IsDigit(c) == \E d \in 1..10 : DigitChars[d] = c

DigitVal(c) == (CHOOSE d \in 1..10 : DigitChars[d] = c) - 1

\* str(int): the decimal digits of a natural number
RECURSIVE NatDigits(_)
NatDigits(x) ==
    IF x < 10 THEN <<DigitChars[x + 1]>>
    ELSE Append(NatDigits(x \div 10), DigitChars[(x % 10) + 1])

\* Series.astype(str) on one cell of an object column; a number read from a
\* sheet into an object column is a Python int
AsStr(v) ==
    CASE v.k = "str" -> v.s
      [] v.k = "num" -> IF v.n < 0 THEN <<"-">> \o NatDigits(0 - v.n) ELSE NatDigits(v.n)
      [] OTHER -> <<"n", "a", "n">>

\* str.replace(',', '')
StripCommas(cs) == SelectSeq(cs, LAMBDA c : c # ",")

AllDigits(cs) == Len(cs) > 0 /\ \A q \in 1..Len(cs) : IsDigit(cs[q])

RECURSIVE DigitsValue(_)
DigitsValue(cs) ==
    IF Len(cs) = 0 THEN 0
    ELSE 10 * DigitsValue(SubSeq(cs, 1, Len(cs) - 1)) + DigitVal(cs[Len(cs)])

\* pd.to_numeric(errors='coerce') on one text: an optionally signed run of
\* digits is a number, every other text of the model's alphabet (the empty
\* text included) becomes NaN
ToNumeric(cs) ==
    IF AllDigits(cs) THEN Num(DigitsValue(cs))
    ELSE IF Len(cs) > 1 /\ cs[1] = "-" /\ AllDigits(Tail(cs)) THEN Num(0 - DigitsValue(Tail(cs)))
    ELSE Null

(***************************************************************************)
(* len(numeric_values) * 0.8 in IEEE-754 double arithmetic.  The literal   *)
(* 0.8 is the double 7205759403792794 * 2^-53, held here in three limbs of *)
(* 18 bits; the product is rounded to a 53-bit significand, ties to even.  *)
(***************************************************************************)
Limb == 512 * 512

Point8Low == 104858

Point8Mid == 157286

Point8High == 104857

RECURSIVE BitLength(_)
BitLength(x) == IF x = 0 THEN 0 ELSE 1 + BitLength(x \div 2)

RECURSIVE Pow2(_)
Pow2(e) == IF e = 0 THEN 1 ELSE 2 * Pow2(e - 1)

\* the top limb (units of 2^-17) of the double nearest to n * 0.8; the two
\* lower limbs are never negative, so an integer p exceeds the double
\* exactly when p * 2^17 exceeds this limb
TimesPoint8High(n) ==
    LET c0 == n * Point8Low
        t1 == n * Point8Mid + (c0 \div Limb)
        l0 == c0 % Limb
        l1 == t1 % Limb
        l2 == n * Point8High + (t1 \div Limb)
        drop == BitLength(l2) - 17
    IN  IF drop <= 0 THEN l2
        ELSE LET r == l0 % Pow2(drop)
                 q == l0 \div Pow2(drop)
                 half == Pow2(drop - 1)
                 up == r > half \/ (r = half /\ q % 2 = 1)
                 f0 == (IF up THEN q + 1 ELSE q) * Pow2(drop)
             IN  l2 + ((l1 + (f0 \div Limb)) \div Limb)

CommitCoercionAtLeast(p, n) == p * (Limb \div 2) >= TimesPoint8High(n)

\* numeric_values.notna().sum() > len(numeric_values) * 0.8
CommitCoercion(p, n) == p * (Limb \div 2) > TimesPoint8High(n)


(***************************************************************************)
(* Data frames.                                                            *)
(***************************************************************************)
PeriodHeader == Text(<<"P", "e", "r", "i", "o", "d">>)

\* the header of the j-th value column, such as "1101 X"
StockLabel(j) == Text(<<"1", "1", "0", DigitChars[j + 1], " ", "X">>)

\* the identifier cell of row i; rows 2 and 3 carry the same period
PeriodKey(i) == Text(<<"P", DigitChars[(IF i <= 2 THEN i ELSE i - 1) + 1]>>)

\* what pd.read_excel returns: the header row as the column labels
Frame(N, R, cell) ==
    [columns |-> <<PeriodHeader>> \o [j \in 1..N |-> StockLabel(j)],
     rows |-> [i \in 1..R |-> <<PeriodKey(i)>> \o [j \in 1..N |-> cell[i][j]]]]

\* value cells of the generated tables, three kinds of cell at a time
CellPalettes ==
    { {Num(100), Text(<<"-">>), Null},
      {Text(<<"1", ",", "2">>), Text(<<"x">>), Text(<<>>)},
      {Text(<<"6", "3", ",", "2", "9", "2", ",", "1", "4", "5">>), Text(<<",">>), Text(<<"x">>)},
      {Text(<<",", "-">>), Text(<<"-", "7">>), Num(200)} }

\* frame is a table of at most maxStocks value columns and maxCells value
\* cells, the cells drawn from one palette
ReadExcel(frame, maxCells, maxStocks) ==
    \E N \in 1..maxStocks : \E R \in 0..maxCells : \E pal \in CellPalettes :
        /\ N * R <= maxCells
        /\ \E c \in [1..R -> [1..N -> pal]] : frame = Frame(N, R, c)

\* 2 periods x 2 stocks, values [[100, "-"], [200, 300]]
ScenarioTable ==
    Frame(2, 2, <<<<Num(100), Text(<<"-">>)>>, <<Num(200), Num(300)>>>>)

\* np.tile: the whole sequence, times over
RECURSIVE Tile(_, _)
Tile(s, times) == IF times = 0 THEN <<>> ELSE s \o Tile(s, times - 1)

\* Index.repeat: each element of s, times over
RECURSIVE Repeat(_, _)
Repeat(s, times) ==
    IF Len(s) = 0 THEN <<>>
    ELSE [q \in 1..times |-> Head(s)] \o Repeat(Tail(s), times)

\* the cells of column j, top to bottom
Column(frame, j) == [i \in 1..Len(frame.rows) |-> frame.rows[i][j]]

\* concat of the columns first..last
RECURSIVE ConcatColumns(_, _, _)
ConcatColumns(frame, first, last) ==
    IF first > last THEN <<>>
    ELSE Column(frame, first) \o ConcatColumns(frame, first + 1, last)

\* DataFrame.melt(id_vars=[columns[0]], value_vars=columns[1:],
\* var_name='Stock') followed by rename(columns={date_col: 'Date'})
MeltRowMajor(frame) ==
    LET R == Len(frame.rows)
        N == Len(frame.columns) - 1
    IN  [q \in 1..(R * N) |->
            [Date |-> frame.rows[((q - 1) \div N) + 1][1],
             Stock |-> frame.columns[((q - 1) % N) + 2],
             Value |-> frame.rows[((q - 1) \div N) + 1][((q - 1) % N) + 2]]]

Melt(frame) ==
    LET R == Len(frame.rows)
        N == Len(frame.columns) - 1
        dates == Tile(Column(frame, 1), N)
        stocks == Repeat(Tail(frame.columns), R)
        values == ConcatColumns(frame, 2, N + 1)
    IN  [q \in 1..Len(values) |->
            [Date |-> dates[q], Stock |-> stocks[q], Value |-> values[q]]]

\* the dtype of the melted value column: object as soon as one value column
\* holds a text, and for a frame without rows
ValueDtype(long) ==
    IF Len(long) = 0 \/ \E q \in 1..Len(long) : long[q].Value.k = "str"
    THEN "object" ELSE "float64"

\* dropna(subset=[value_column_name])
DropNa(long) == SelectSeq(long, LAMBDA r : ~IsNull(r.Value))

\* long_df[long_df[value_column_name] != text]
DropEqual(long, text) == SelectSeq(long, LAMBDA r : NotEqualText(r.Value, text))

SentinelFilterNoDash(long) == DropEqual(DropNa(long), <<>>)

\* the three filters of the cleaning step
SentinelFilter(long) == DropEqual(DropEqual(DropNa(long), <<"-">>), <<>>)

\* astype(str).str.replace(',', '') on the value column
StripColumn(long) ==
    [q \in 1..Len(long) |-> [long[q] EXCEPT !.Value = Text(StripCommas(AsStr(@)))]]

\* pd.to_numeric(column, errors='coerce')
NumericColumn(long) ==
    [q \in 1..Len(long) |-> [long[q] EXCEPT !.Value = ToNumeric(@.s)]]

\* numeric_values.notna().sum()
NotNaSum(long) == Cardinality({q \in 1..Len(long) : ~IsNull(long[q].Value)})

(***************************************************************************)
(* State.                                                                  *)
(***************************************************************************)
VARIABLES
    pc,              \* position in the running script
    script,          \* which script runs
    df,              \* the frame read from the spreadsheet
    long_df,         \* the long table being built
    unpivoted,       \* long_df as it left the melt
    filtered,        \* long_df as it left the missing-value filters
    value_dtype,     \* dtype of the value column of long_df
    coercion,        \* what the numeric clean-up decided
    initial_rows, final_rows, removed_rows,
    written,         \* names of the CSV files written so far
    csv_rows,        \* the rows of the CSV file written last
    exists,          \* os.path.exists of each configured file
    cfg_i,           \* index of the configuration entry the batch is at
    results,         \* the batch driver's result list
    successful, total_rows,
    actual_columns,  \* quarterly fixer: the labels taken from row 0
    data_rows,       \* quarterly fixer: the frame below row 0
    notna_sum, n_values

vars ==
    <<pc, script, df, long_df, unpivoted, filtered, value_dtype, coercion,
      initial_rows, final_rows, removed_rows, written, csv_rows, exists, cfg_i,
      results, successful, total_rows, actual_columns, data_rows, notna_sum,
      n_values>>

pipelineVars ==
    <<long_df, unpivoted, filtered, value_dtype, coercion, initial_rows,
      final_rows, removed_rows>>

batchVars == <<exists, cfg_i, results, successful, total_rows>>

quarterlyVars == <<actual_columns, data_rows>>

thresholdVars == <<notna_sum, n_values>>

NoFrame == [columns |-> <<>>, rows |-> <<>>]

\* the values every variable has before a script touches it
Fresh ==
    /\ long_df = <<>> /\ unpivoted = <<>> /\ filtered = <<>>
    /\ value_dtype = "none" /\ coercion = "none"
    /\ initial_rows = 0 /\ final_rows = 0 /\ removed_rows = 0
    /\ written = {} /\ csv_rows = <<>>
    /\ cfg_i = 1 /\ results = <<>> /\ successful = 0 /\ total_rows = 0
    /\ actual_columns = <<>> /\ data_rows = NoFrame
    /\ notna_sum = 0 /\ n_values = 0

(***************************************************************************)
(* The numeric clean-up of convert_stock_file_to_long, as a function of    *)
(* the filtered long table.                                                *)
(***************************************************************************)
CoercionCommitted(long) ==
    CommitCoercion(NotNaSum(NumericColumn(StripColumn(long))), Len(long))

CoerceNeverDrop(long) ==
    IF CoercionCommitted(long) THEN NumericColumn(StripColumn(long))
    ELSE StripColumn(long)

CoerceColumn(long) ==
    IF CoercionCommitted(long) THEN DropNa(NumericColumn(StripColumn(long)))
    ELSE StripColumn(long)

(***************************************************************************)
(* convert_stock_file_to_long("stock price.xlsx", "_prices", "Price") and  *)
(* convert_wide_to_long_csv("stock price.xlsx"), one step at a time.       *)
(***************************************************************************)
InitPipeline ==
    /\ pc = "start"
    /\ \/ /\ script = "multi_file_converter"
          /\ ReadExcel(df, MaxCells, MaxStocks) \/ df = ScenarioTable
       \/ /\ script = "wide_to_long"
          /\ ReadExcel(df, MaxWideCells, MaxStocks) \/ df = ScenarioTable
    /\ exists = <<>>
    /\ Fresh

\* melt and rename
Unpivot ==
    /\ script = "multi_file_converter" /\ pc = "start"
    /\ long_df' = Melt(df)
    /\ unpivoted' = long_df'
    /\ value_dtype' = ValueDtype(long_df')
    /\ pc' = "melted"
    /\ UNCHANGED <<script, df, filtered, coercion, initial_rows, final_rows,
                   removed_rows, written, csv_rows>>
    /\ UNCHANGED <<batchVars, quarterlyVars, thresholdVars>>

\* initial_rows and the three missing-value filters
Clean ==
    /\ script = "multi_file_converter" /\ pc = "melted"
    /\ initial_rows' = Len(long_df)
    /\ long_df' = SentinelFilter(long_df)
    /\ filtered' = long_df'
    /\ pc' = "filtered"
    /\ UNCHANGED <<script, df, unpivoted, value_dtype, coercion, final_rows,
                   removed_rows, written, csv_rows>>
    /\ UNCHANGED <<batchVars, quarterlyVars, thresholdVars>>

\* the numeric clean-up of an object column
Coerce ==
    /\ script = "multi_file_converter" /\ pc = "filtered"
    /\ IF value_dtype = "object"
       THEN /\ long_df' = CoerceColumn(long_df)
            /\ coercion' = IF CoercionCommitted(long_df) THEN "committed" ELSE "abandoned"
            /\ value_dtype' = IF CoercionCommitted(long_df) THEN "float64" ELSE "object"
       ELSE /\ coercion' = "skipped"
            /\ UNCHANGED <<long_df, value_dtype>>
    /\ pc' = "coerced"
    /\ UNCHANGED <<script, df, unpivoted, filtered, initial_rows, final_rows,
                   removed_rows, written, csv_rows>>
    /\ UNCHANGED <<batchVars, quarterlyVars, thresholdVars>>

RemovedRowsSwapped(initial, final) == final - initial

\* initial_rows - final_rows
RemovedRows(initial, final) == initial - final

\* reset_index, the row counts and to_csv
Save ==
    /\ script = "multi_file_converter" /\ pc = "coerced"
    /\ final_rows' = Len(long_df)
    /\ removed_rows' = RemovedRows(initial_rows, final_rows')
    /\ written' = written \cup {"stock price_prices_long_format.csv"}
    /\ csv_rows' = long_df
    /\ pc' = "saved"
    /\ UNCHANGED <<script, df, long_df, unpivoted, filtered, value_dtype, coercion,
                   initial_rows>>
    /\ UNCHANGED <<batchVars, quarterlyVars, thresholdVars>>

\* the summary, the sample, the statistics and the return; a print or a
\* format of these steps may raise
Summarize ==
    /\ script = "multi_file_converter" /\ pc = "saved"
    /\ \E raises \in BOOLEAN : pc' = IF raises THEN "raised" ELSE "returned"
    /\ UNCHANGED <<script, df, pipelineVars, written, csv_rows>>
    /\ UNCHANGED <<batchVars, quarterlyVars, thresholdVars>>

\* convert_wide_to_long_csv: melt and rename
WideUnpivot ==
    /\ script = "wide_to_long" /\ pc = "start"
    /\ long_df' = Melt(df)
    /\ unpivoted' = long_df'
    /\ value_dtype' = ValueDtype(long_df')
    /\ pc' = "melted"
    /\ UNCHANGED <<script, df, filtered, coercion, initial_rows, final_rows,
                   removed_rows, written, csv_rows>>
    /\ UNCHANGED <<batchVars, quarterlyVars, thresholdVars>>

\* convert_wide_to_long_csv: the filters, the row counts and to_csv
WideCleanAndSave ==
    /\ script = "wide_to_long" /\ pc = "melted"
    /\ initial_rows' = Len(long_df)
    /\ long_df' = SentinelFilter(long_df)
    /\ filtered' = long_df'
    /\ final_rows' = Len(long_df')
    /\ removed_rows' = RemovedRows(initial_rows', final_rows')
    /\ written' = written \cup {"taiwan_stocks_long_format.csv"}
    /\ csv_rows' = long_df'
    /\ pc' = "saved"
    /\ UNCHANGED <<script, df, unpivoted, value_dtype, coercion>>
    /\ UNCHANGED <<batchVars, quarterlyVars, thresholdVars>>

\* convert_wide_to_long_csv: the summary and the return
WideSummarize ==
    /\ script = "wide_to_long" /\ pc = "saved"
    /\ \E raises \in BOOLEAN : pc' = IF raises THEN "raised" ELSE "returned"
    /\ UNCHANGED <<script, df, pipelineVars, written, csv_rows>>
    /\ UNCHANGED <<batchVars, quarterlyVars, thresholdVars>>

Next ==
    \/ Unpivot
    \/ Clean
    \/ Coerce
    \/ Save
    \/ Summarize
    \/ WideUnpivot
    \/ WideCleanAndSave
    \/ WideSummarize

Spec == InitPipeline /\ [][Next]_vars

(***************************************************************************)
(* convert_all_stock_files: the batch driver.  A call of                   *)
(* convert_stock_file_to_long is one step of its loop.                     *)
(***************************************************************************)
FilesConfig ==
    << [file |-> "stock price.xlsx", suffix |-> "_prices",
        value_name |-> "Price", description |-> "Stock Prices"],
       [file |-> "tv.xlsx", suffix |-> "_volume",
        value_name |-> "Volume", description |-> "Trading Volume"],
       [file |-> "mkt cap.xlsx", suffix |-> "_market_cap",
        value_name |-> "MarketCap", description |-> "Market Capitalization"],
       [file |-> "book value.xlsx", suffix |-> "_book_value",
        value_name |-> "BookValue", description |-> "Book Value (Quarterly)"],
       [file |-> "announcemnet date.xlsx", suffix |-> "_announcement",
        value_name |-> "AnnouncementDate", description |-> "Announcement Dates"] >>

\* os.path.splitext(os.path.basename(file_path))[0]
BaseName(file) ==
    CASE file = "stock price.xlsx" -> "stock price"
      [] file = "tv.xlsx" -> "tv"
      [] file = "mkt cap.xlsx" -> "mkt cap"
      [] file = "book value.xlsx" -> "book value"
      [] file = "announcemnet date.xlsx" -> "announcemnet date"

\* f"{base_name}{output_suffix}_long_format.csv"
CsvName(config) == BaseName(config.file) \o config.suffix \o "_long_format.csv"

\* the long table convert_stock_file_to_long writes and returns for a frame
Convert(frame) ==
    LET melted == Melt(frame)
        cleaned == SentinelFilter(melted)
    IN  IF ValueDtype(melted) = "object" THEN CoerceColumn(cleaned) ELSE cleaned

SuccessResult(config, filename, rows) ==
    [original_file |-> config.file, output_file |-> filename,
     description |-> config.description, rows |-> rows, success |-> TRUE,
     error |-> "none"]

\* the result of a missing file (error "none") and of a raised exception
FailureResult(config, error) ==
    [original_file |-> config.file, output_file |-> "None",
     description |-> config.description, rows |-> 0, success |-> FALSE,
     error |-> error]

InitBatch ==
    /\ pc = "loop"
    /\ script = "convert_all_stock_files"
    /\ df = NoFrame
    /\ exists \in [1..Len(FilesConfig) -> BOOLEAN]
    /\ Fresh

\* one iteration of  for config in files_config
ProcessFile ==
    /\ pc = "loop"
    /\ LET config == FilesConfig[cfg_i] IN
         IF exists[cfg_i]
         THEN \/ \* pd.read_excel raises: nothing is written
                 /\ results' = Append(results, FailureResult(config, "raised"))
                 /\ UNCHANGED written
              \/ \* a one-stock sheet is read and converted, the CSV file is
                 \* written, and the steps after the write raise or do not
                 \E R \in 0..MaxBatchRows : \E pal \in CellPalettes :
                   \E c \in [1..R -> [1..1 -> pal]] : \E raises \in BOOLEAN :
                     /\ written' = written \cup {CsvName(config)}
                     /\ results' = Append(results,
                            IF raises THEN FailureResult(config, "raised")
                            ELSE SuccessResult(config, CsvName(config),
                                               Len(Convert(Frame(1, R, c)))))
         ELSE /\ results' = Append(results, FailureResult(config, "none"))
              /\ UNCHANGED written
    /\ cfg_i' = cfg_i + 1
    /\ pc' = IF cfg_i = Len(FilesConfig) THEN "report" ELSE "loop"
    /\ UNCHANGED <<script, df, pipelineVars, csv_rows, exists, successful, total_rows>>
    /\ UNCHANGED <<quarterlyVars, thresholdVars>>

CountAll(rs) == Len(rs)

\* successful += 1 for every result with success
CountSuccessful(rs) == Cardinality({q \in 1..Len(rs) : rs[q].success})

\* total_rows += result["rows"] for every result with success
RECURSIVE SumRows(_)
SumRows(rs) ==
    IF Len(rs) = 0 THEN 0
    ELSE (IF Head(rs).success THEN Head(rs).rows ELSE 0) + SumRows(Tail(rs))

\* the summary report
Report ==
    /\ pc = "report"
    /\ successful' = CountSuccessful(results)
    /\ total_rows' = SumRows(results)
    /\ pc' = "done"
    /\ UNCHANGED <<script, df, pipelineVars, written, csv_rows, exists, cfg_i, results>>
    /\ UNCHANGED <<quarterlyVars, thresholdVars>>

NextBatch ==
    \/ ProcessFile
    \/ Report

SpecBatch == InitBatch /\ [][NextBatch]_vars

(***************************************************************************)
(* fix_quarterly_data_files: the announcement dates block, then the book   *)
(* values block.  Each block is one try statement.                         *)
(***************************************************************************)
\* the frame read from a quarterly sheet: a first header row of no use,
\* then the real labels as row 0, then the data
Loaded(frame) ==
    [columns |-> [j \in 1..Len(frame.columns) |-> Text(<<"U", DigitChars[j]>>)],
     rows |-> <<frame.columns>> \o frame.rows]

KeepHeaderRow(frame) == [columns |-> frame.rows[1], rows |-> frame.rows]

\* actual_columns = df.iloc[0].values; data_rows = df.iloc[1:] re-indexed;
\* data_rows.columns = actual_columns
HeaderOffset(frame) == [columns |-> frame.rows[1], rows |-> Tail(frame.rows)]

CoerceWithThreshold(long) ==
    IF CoercionCommitted(long) THEN DropNa(NumericColumn(StripColumn(long)))
    ELSE StripColumn(long)

\* strip the commas, to_numeric, dropna: no threshold
CoerceAlways(long) == DropNa(NumericColumn(StripColumn(long)))

InitQuarterly ==
    /\ pc = "announcement"
    /\ script = "fix_quarterly_data_files"
    /\ df = NoFrame
    /\ exists = <<>>
    /\ Fresh

\* a sheet with its labels in row 0, or a sheet without any row
ReadQuarterly(frame) ==
    \/ \E N \in 1..MaxStocks :
           frame = [columns |-> Loaded(Frame(N, 0, <<>>)).columns, rows |-> <<>>]
    \/ \E N \in 1..MaxStocks : \E R \in 0..MaxQuarterlyCells : \E pal \in CellPalettes :
           /\ N * R <= MaxQuarterlyCells
           /\ \E c \in [1..R -> [1..N -> pal]] : frame = Loaded(Frame(N, R, c))

\* the first try block
FixAnnouncement ==
    /\ pc = "announcement"
    /\ pc' = "book"
    /\ \/ \* pd.read_excel raises
          UNCHANGED <<df, long_df, unpivoted, filtered, value_dtype, written, csv_rows,
                      actual_columns, data_rows>>
       \/ /\ ReadQuarterly(df')
          /\ IF Len(df'.rows) = 0
             THEN \* iloc[0] raises IndexError
                  UNCHANGED <<long_df, unpivoted, filtered, value_dtype, written,
                              csv_rows, actual_columns, data_rows>>
             ELSE /\ actual_columns' = df'.rows[1]
                  /\ data_rows' = HeaderOffset(df')
                  /\ unpivoted' = Melt(data_rows')
                  /\ value_dtype' = "object"
                  /\ filtered' = SentinelFilter(unpivoted')
                  /\ long_df' = filtered'
                  /\ written' = written \cup {"announcement_dates_fixed.csv"}
                  /\ csv_rows' = long_df'
    /\ UNCHANGED <<script, coercion, initial_rows, final_rows, removed_rows>>
    /\ UNCHANGED <<batchVars, thresholdVars>>

\* the second try block
FixBookValues ==
    /\ pc = "book"
    /\ pc' = "done"
    /\ \/ \* pd.read_excel raises
          UNCHANGED <<df, long_df, unpivoted, filtered, value_dtype, written, csv_rows,
                      actual_columns, data_rows>>
       \/ /\ ReadQuarterly(df')
          /\ IF Len(df'.rows) = 0
             THEN \* iloc[0] raises IndexError
                  UNCHANGED <<long_df, unpivoted, filtered, value_dtype, written,
                              csv_rows, actual_columns, data_rows>>
             ELSE /\ actual_columns' = df'.rows[1]
                  /\ data_rows' = HeaderOffset(df')
                  /\ unpivoted' = Melt(data_rows')
                  /\ filtered' = SentinelFilter(unpivoted')
                  /\ long_df' = CoerceAlways(filtered')
                  /\ value_dtype' = "float64"
                  /\ written' = written \cup {"book_values_fixed.csv"}
                  /\ csv_rows' = long_df'
    /\ UNCHANGED <<script, coercion, initial_rows, final_rows, removed_rows>>
    /\ UNCHANGED <<batchVars, thresholdVars>>

NextQuarterly ==
    \/ FixAnnouncement
    \/ FixBookValues

SpecQuarterly == InitQuarterly /\ [][NextQuarterly]_vars

(***************************************************************************)
(* The decision of the numeric clean-up on a column of n_values filtered   *)
(* records of which notna_sum parse.                                       *)
(***************************************************************************)
InitThreshold ==
    /\ pc = "filtered"
    /\ script = "multi_file_converter"
    /\ df = NoFrame
    /\ exists = <<>>
    /\ long_df = <<>> /\ unpivoted = <<>> /\ filtered = <<>>
    /\ value_dtype = "object" /\ coercion = "none"
    /\ initial_rows = 0 /\ final_rows = 0 /\ removed_rows = 0
    /\ written = {} /\ csv_rows = <<>>
    /\ cfg_i = 1 /\ results = <<>> /\ successful = 0 /\ total_rows = 0
    /\ actual_columns = <<>> /\ data_rows = NoFrame
    /\ n_values \in 0..MaxTotal
    /\ notna_sum \in 0..n_values

\* if numeric_values.notna().sum() > len(numeric_values) * 0.8
Decide ==
    /\ pc = "filtered" /\ coercion = "none"
    /\ coercion' = IF CommitCoercion(notna_sum, n_values) THEN "committed" ELSE "abandoned"
    /\ pc' = "coerced"
    /\ UNCHANGED <<script, df, long_df, unpivoted, filtered, value_dtype, initial_rows,
                   final_rows, removed_rows, written, csv_rows>>
    /\ UNCHANGED <<batchVars, quarterlyVars, thresholdVars>>

NextThreshold == Decide

SpecThreshold == InitThreshold /\ [][NextThreshold]_vars

(***************************************************************************)
(* Properties of the two single-file pipelines (specification Spec).       *)
(***************************************************************************)
Melted == pc # "start"

Cleaned == pc \notin {"start", "melted"}

Coerced == script = "multi_file_converter" /\ pc \in {"coerced", "saved", "returned", "raised"}

Saved == pc \in {"saved", "returned", "raised"}

NumRows == Len(df.rows)

NumStocks == Len(df.columns) - 1

\* a value the missing-value filter is meant to remove
IsSentinel(v) == v = Null \/ v = Text(<<"-">>) \/ v = Text(<<>>)

\* how many of the first q records of long satisfy Keep
Rank(long, q, Keep(_)) == Cardinality({r \in 1..q : Keep(long[r])})

\* out is long restricted to the records satisfying Keep, each mapped by
\* Map, in the order of long
IsSelection(out, long, Keep(_), Map(_)) ==
    /\ Len(out) = Rank(long, Len(long), Keep)
    /\ \A q \in 1..Len(long) :
           Keep(long[q]) => out[Rank(long, q, Keep)] = Map(long[q])

Same(r) == r

\* C1: the melt yields exactly R*N records, the record of row i and value
\* column j at place (j-1)*R + i, holding the row's identifier, the column's
\* header and the cell; rows with equal identifiers stay apart.
C1_UnpivotOnePerCell ==
    Melted =>
        /\ Len(unpivoted) = NumRows * NumStocks
        /\ pc = "melted" => long_df = unpivoted
        /\ \A i \in 1..NumRows : \A j \in 1..NumStocks :
               unpivoted[(j - 1) * NumRows + i] =
                   [Date |-> df.rows[i][1], Stock |-> df.columns[j + 1],
                    Value |-> df.rows[i][j + 1]]

C1_Witness ==
    /\ pc = "melted" /\ script = "multi_file_converter"
    /\ NumRows = 3 /\ NumStocks = 2
    /\ df.rows[2] = df.rows[3]
    /\ df.rows[1][2] # df.rows[1][3]
    /\ Len(long_df) = 6

\* C2: the filter removes exactly the records whose value is null, "-" or
\* the empty text and keeps the others unchanged, in their order; the
\* scenario table yields (P1,S1,100), (P2,S1,200), (P2,S2,300).
C2_FilterRemovesExactlySentinels ==
    Cleaned =>
        /\ IsSelection(filtered, unpivoted, LAMBDA r : ~IsSentinel(r.Value), Same)
        /\ pc = "filtered" => long_df = filtered
        /\ df = ScenarioTable =>
               filtered =
                   << [Date |-> PeriodKey(1), Stock |-> StockLabel(1), Value |-> Num(100)],
                      [Date |-> PeriodKey(2), Stock |-> StockLabel(1), Value |-> Num(200)],
                      [Date |-> PeriodKey(2), Stock |-> StockLabel(2), Value |-> Num(300)] >>

C2_Witness ==
    /\ pc = "filtered" /\ df = ScenarioTable
    /\ Len(unpivoted) = 4 /\ Len(long_df) = 3

\* the number a filtered record's comma-stripped text parses to, or Null
Parsed(r) == ToNumeric(StripCommas(AsStr(r.Value)))

BigText == Text(<<"6", "3", ",", "2", "9", "2", ",", "1", "4", "5">>)

\* C4: committed coercion keeps exactly the records whose comma-stripped
\* text parses, each with the parsed number as its value ("63,292,145"
\* becomes 63292145); abandoned coercion keeps every record, each with its
\* text less the commas.
C4_CoercionOutcomes ==
    Coerced =>
        /\ coercion = "committed" =>
               /\ IsSelection(long_df, filtered, LAMBDA r : Parsed(r) # Null,
                              LAMBDA r : [r EXCEPT !.Value = Parsed(r)])
               /\ \A q \in 1..Len(long_df) : long_df[q].Value.k = "num"
               /\ \A q \in 1..Len(filtered) :
                      filtered[q].Value = BigText =>
                          long_df[Rank(filtered, q, LAMBDA r : Parsed(r) # Null)].Value
                              = Num(63292145)
        /\ coercion = "abandoned" =>
               /\ Len(long_df) = Len(filtered)
               /\ \A q \in 1..Len(filtered) :
                      long_df[q] =
                          [filtered[q] EXCEPT !.Value = Text(StripCommas(AsStr(@)))]

C4_Witness ==
    /\ Coerced /\ coercion = "committed"
    /\ Len(long_df) < Len(filtered)
    /\ \E q \in 1..Len(long_df) : long_df[q].Value = Num(63292145)

\* C7 as stated: the reported count is the number of records before the
\* missing-value filter less the number right after it.
C7_RemovedEqualsFilterDifference ==
    (Saved /\ script = "multi_file_converter") =>
        removed_rows = Len(unpivoted) - Len(filtered)

\* C7 amended: the reported count is the number of records before the
\* missing-value filter less the number of records of the final table, so
\* it is the filter's removals plus the rows a committed coercion dropped.
C7_RemovedCountsCoercionDrops ==
    Saved =>
        /\ removed_rows = Len(unpivoted) - Len(csv_rows)
        /\ script = "multi_file_converter" =>
               removed_rows =
                   (Len(unpivoted) - Len(filtered)) + (Len(filtered) - Len(long_df))
        /\ script = "wide_to_long" => removed_rows = Len(unpivoted) - Len(filtered)

C7_Witness ==
    /\ Saved /\ script = "multi_file_converter"
    /\ Len(filtered) < Len(unpivoted)
    /\ Len(long_df) < Len(filtered)
    /\ removed_rows = Len(unpivoted) - Len(long_df)

\* C9: no record of the table the general pipeline writes and returns has a
\* value that is null, "-" or the empty text.
C9_NoSentinelInOutput ==
    Coerced =>
        /\ \A q \in 1..Len(long_df) : ~IsSentinel(long_df[q].Value)
        /\ Saved => \A q \in 1..Len(csv_rows) : ~IsSentinel(csv_rows[q].Value)

(***************************************************************************)
(* Properties of the coercion decision (specification SpecThreshold).      *)
(***************************************************************************)
\* C3: coercion is committed exactly when more than 0.8 of the n filtered
\* records parse, that is when 5*p > 4*n: not at 80 of 100, but at 81 of 100.
C3_ThresholdExact ==
    pc = "coerced" =>
        /\ (coercion = "committed") <=> (5 * notna_sum > 4 * n_values)
        /\ (coercion = "abandoned") <=> (5 * notna_sum <= 4 * n_values)
        /\ (n_values = 100 /\ notna_sum = 80) => coercion = "abandoned"
        /\ (n_values = 100 /\ notna_sum = 81) => coercion = "committed"

C3_Witness ==
    /\ pc = "coerced" /\ n_values = 100 /\ notna_sum = 81
    /\ coercion = "committed"

(***************************************************************************)
(* Properties of the batch driver (specification SpecBatch).               *)
(***************************************************************************)
NumMissing == Cardinality({q \in 1..Len(FilesConfig) : ~exists[q]})

RECURSIVE RowsOfSuccesses(_, _)
RowsOfSuccesses(rs, upto) ==
    IF upto = 0 THEN 0
    ELSE RowsOfSuccesses(rs, upto - 1) + (IF rs[upto].success THEN rs[upto].rows ELSE 0)

\* C5: every configured entry is visited in configured order and gets
\* exactly one result, whatever files are missing or raise; a result has
\* success exactly when the file exists and nothing raised; a failed result
\* has rows 0 and no output file; the report counts the successes and sums
\* the rows of the successes only, 3 of 5 when 2 files are missing and 3
\* convert.
C5_BatchFailureIsolation ==
    /\ Len(results) = cfg_i - 1
    /\ pc \in {"report", "done"} => Len(results) = Len(FilesConfig)
    /\ \A q \in 1..Len(results) :
           /\ results[q].original_file = FilesConfig[q].file
           /\ results[q].success <=> (exists[q] /\ results[q].error = "none")
           /\ ~exists[q] => results[q].error = "none"
           /\ ~results[q].success =>
                  results[q].rows = 0 /\ results[q].output_file = "None"
           /\ results[q].success => results[q].output_file = CsvName(FilesConfig[q])
    /\ pc = "done" =>
           /\ successful = Cardinality({q \in 1..Len(results) : results[q].success})
           /\ successful + Cardinality({q \in 1..Len(results) : ~results[q].success})
                  = Len(FilesConfig)
           /\ total_rows = RowsOfSuccesses(results, Len(results))
           /\ (NumMissing = 2 /\ \A q \in 1..Len(results) :
                                     exists[q] => results[q].error = "none")
                  => successful = 3

C5_Witness ==
    /\ pc = "done" /\ NumMissing = 2 /\ ~exists[1]
    /\ successful = 3 /\ total_rows = 4
    /\ \A q \in 1..Len(results) : ~exists[q] => ~results[q].success /\ results[q].rows = 0

\* C10: a result with success false and no output file means that no CSV
\* file of that entry was written in the run.
C10_NoFileWithoutSuccess ==
    \A q \in 1..Len(results) :
        (~results[q].success /\ results[q].output_file = "None")
            => CsvName(FilesConfig[q]) \notin written

(***************************************************************************)
(* Properties of the quarterly fixer (specification SpecQuarterly).        *)
(***************************************************************************)
\* the block that ran last wrote its file, so it ran to its end on df
AnnouncementFixed == pc = "book" /\ "announcement_dates_fixed.csv" \in written

BookValuesFixed ==
    /\ pc = "done" /\ "book_values_fixed.csv" \in written
    /\ Len(df.rows) > 0

\* C6: the corrected frame has the cells of row 0 as its column names, in
\* their places, and the rows 1..R-1 as its body, one row fewer than read;
\* the melt then takes its Stock values from those labels.
C6_HeaderOffsetCorrection ==
    (AnnouncementFixed \/ BookValuesFixed) =>
        /\ Len(data_rows.columns) = Len(df.columns)
        /\ \A j \in 1..Len(df.columns) :
               data_rows.columns[j] = df.rows[1][j] /\ actual_columns[j] = df.rows[1][j]
        /\ Len(data_rows.rows) = Len(df.rows) - 1
        /\ \A i \in 1..(Len(df.rows) - 1) : data_rows.rows[i] = df.rows[i + 1]
        /\ Len(unpivoted) = (Len(df.rows) - 1) * (Len(df.columns) - 1)
        /\ \A i \in 1..(Len(df.rows) - 1) : \A j \in 1..(Len(df.columns) - 1) :
               unpivoted[(j - 1) * (Len(df.rows) - 1) + i] =
                   [Date |-> df.rows[i + 1][1], Stock |-> df.rows[1][j + 1],
                    Value |-> df.rows[i + 1][j + 1]]

C6_Witness ==
    /\ AnnouncementFixed
    /\ Len(df.rows) = 2 /\ Len(df.columns) = 3
    /\ data_rows.columns = <<PeriodHeader, StockLabel(1), StockLabel(2)>>
    /\ Len(data_rows.rows) = 1
    /\ unpivoted[2].Stock = StockLabel(2)

\* C8: the book values are always stripped of commas and parsed, and every
\* record that does not parse is dropped, whatever fraction parses, so every
\* value written is a number; the announcement dates are never coerced and
\* lose rows to the missing-value filter only.
C8_UnconditionalCoercion ==
    /\ BookValuesFixed =>
           /\ IsSelection(filtered, unpivoted, LAMBDA r : ~IsSentinel(r.Value), Same)
           /\ IsSelection(long_df, filtered, LAMBDA r : Parsed(r) # Null,
                          LAMBDA r : [r EXCEPT !.Value = Parsed(r)])
           /\ csv_rows = long_df
           /\ \A q \in 1..Len(csv_rows) : csv_rows[q].Value.k = "num"
    /\ AnnouncementFixed =>
           /\ IsSelection(long_df, unpivoted, LAMBDA r : ~IsSentinel(r.Value), Same)
           /\ csv_rows = long_df

C8_Witness ==
    /\ BookValuesFixed
    /\ Len(filtered) = 3 /\ Len(long_df) = 1
    /\ ~CommitCoercion(Len(long_df), Len(filtered))

=============================================================================
